---------------------------- MODULE Spec2Model ----------------------------
(***************************************************************************)
(* Model of the two programs of the repository:                            *)
(*   src/app.py            the Flask handler process_frame (web path)      *)
(*   src/hand_tracking.py  the camera loop (live path)                     *)
(* The MediaPipe detector, OpenCV's codec and the camera are external: the *)
(* model keeps what the code passes to them and branches on what they can  *)
(* return or raise.                                                        *)
(***************************************************************************)
EXTENDS Integers, Sequences, FiniteSets, TLC

VARIABLES
    \* ---- web path (src/app.py) ----
    pc,          \* per handler thread: idle, received, ready, in_detector, respond, done
    request,     \* per handler: the HTTP request it serves
    frame,       \* per handler: rgb_frame handed to the detector
    results,     \* per handler: results.multi_hand_landmarks
    raised,      \* per handler: the exception raised inside the try block, or NoExc
    responses,   \* per handler: the responses the handler has returned
    escaped,     \* per handler: an exception left process_frame
    raced,       \* per handler: another thread was inside hands.process during its call
    doneBefore,  \* per handler: the handlers that had answered when its request arrived
    tracked,     \* the shared detector's internal state: hands followed from the last call
    \* ---- live path (src/hand_tracking.py) ----
    lpc,         \* position of the script
    capOpen,     \* cap.isOpened()
    camAlive,    \* the capture source still yields frames
    window,      \* the 'Hand Tracking' window exists
    keyPending,  \* key code waiting in the window's event queue, NoKey if none
    liveHands,   \* hands the detector reported for the current frame
    ops,         \* what the current loop iteration has done so far
    prevOps,     \* what the iteration before it did
    released,    \* cap.release() has run
    destroyed    \* cv2.destroyAllWindows() has run

webVars == <<pc, request, frame, results, raised, responses, escaped, raced,
             doneBefore, tracked>>
liveVars == <<lpc, capOpen, camAlive, window, keyPending, liveHands, ops, prevOps,
              released, destroyed>>
vars == <<webVars, liveVars>>

-----------------------------------------------------------------------------
(* Bounds of the model *)

\* requests served by the threaded server in SpecServer runs (one thread each)
MaxRequests == 2
\* longest text behind the optional data-URL prefix in SpecDecode runs
MaxLen == 5

(* Program constants *)

MaxNumHands == 2
NumLandmarks == 21
ESC == 27
StaticImageMode == FALSE

Handlers == 1..MaxRequests
NoExc == "none"
NoKey == -1

Min(a, b) == IF a < b THEN a ELSE b

-----------------------------------------------------------------------------
(* Strings are sequences of one-character strings. *)

DataUrlPrefix ==
    <<"d","a","t","a",":","i","m","a","g","e","/","j","p","e","g",";",
      "b","a","s","e","6","4",",">>

\* str.split(sep): the parts of s between the occurrences of sep
RECURSIVE SplitFrom(_, _, _, _)
SplitFrom(s, sep, i, cur) ==
    IF i > Len(s) THEN <<cur>>
    ELSE IF s[i] = sep THEN <<cur>> \o SplitFrom(s, sep, i + 1, <<>>)
    ELSE SplitFrom(s, sep, i + 1, Append(cur, s[i]))

Split(s, sep) == SplitFrom(s, sep, 1, <<>>)

B64Chars ==
    <<"A","B","C","D","E","F","G","H","I","J","K","L","M","N","O","P",
      "Q","R","S","T","U","V","W","X","Y","Z","a","b","c","d","e","f",
      "g","h","i","j","k","l","m","n","o","p","q","r","s","t","u","v",
      "w","x","y","z","0","1","2","3","4","5","6","7","8","9","+","/">>

B64Pad == "="

InAlphabet(c) == \E i \in 1..64 : B64Chars[i] = c

\* table_a2b_base64: the 6-bit value of an alphabet character
B64Value(c) == (CHOOSE i \in 1..64 : B64Chars[i] = c) - 1

\* binascii.a2b_base64 in its default, non-strict mode, which is what
\* base64.b64decode(s) calls when validate is left False: characters outside
\* the alphabet are skipped, a complete pad sequence ends the parse, and
\* an incomplete last quad is an error.
RECURSIVE A2bBase64(_, _, _, _, _, _)
A2bBase64(s, i, quad, left, pads, out) ==
    IF i > Len(s)
    THEN IF quad = 0 THEN [exc |-> NoExc, bytes |-> out]
         ELSE [exc |-> "binascii.Error", bytes |-> <<>>]
    ELSE IF s[i] = B64Pad
    THEN IF quad >= 2 /\ quad + pads + 1 >= 4
         THEN [exc |-> NoExc, bytes |-> out]
         ELSE A2bBase64(s, i + 1, quad, left,
                        IF quad >= 2 THEN pads + 1 ELSE pads, out)
    ELSE IF ~InAlphabet(s[i])
    THEN A2bBase64(s, i + 1, quad, left, pads, out)
    ELSE LET v == B64Value(s[i]) IN
         CASE quad = 0 -> A2bBase64(s, i + 1, 1, v, 0, out)
           [] quad = 1 -> A2bBase64(s, i + 1, 2, v % 16, 0,
                                    Append(out, (left * 4 + v \div 16) % 256))
           [] quad = 2 -> A2bBase64(s, i + 1, 3, v % 4, 0,
                                    Append(out, (left * 16 + v \div 4) % 256))
           [] quad = 3 -> A2bBase64(s, i + 1, 0, 0, 0,
                                    Append(out, (left * 64 + v) % 256))

B64Decode(s) == A2bBase64(s, 1, 0, 0, 0, <<>>)


-----------------------------------------------------------------------------
(* The request pipeline of process_frame, lines 29-41 *)

NoRequest == [kind |-> "none", image |-> <<>>]
NoFrame == [isNone |-> TRUE, order |-> "", data |-> <<>>]
NoResults == [present |-> FALSE, hands |-> <<>>]

\* the marker every JPEG stream starts with (FF D8 FF); the codec finds its
\* decoder by it
JpegSignature == <<255, 216, 255>>

IsImage(bytes) ==
    /\ Len(bytes) >= Len(JpegSignature)
    /\ SubSeq(bytes, 1, Len(JpegSignature)) = JpegSignature

\* cv2.imdecode(nparr, cv2.IMREAD_COLOR): raises on an empty buffer, returns
\* None when no decoder takes the bytes, else the BGR pixel grid
ImDecode(bytes) ==
    IF Len(bytes) = 0 THEN [exc |-> "cv2.error:imdecode", frame |-> NoFrame]
    ELSE IF ~IsImage(bytes) THEN [exc |-> NoExc, frame |-> NoFrame]
    ELSE [exc |-> NoExc,
          frame |-> [isNone |-> FALSE, order |-> "BGR",
                     data |-> SubSeq(bytes, Len(JpegSignature) + 1, Len(bytes))]]

\* cv2.cvtColor(frame, cv2.COLOR_BGR2RGB): raises on None
CvtColor(f) ==
    IF f.isNone THEN [exc |-> "cv2.error:cvtColor", frame |-> NoFrame]
    ELSE [exc |-> NoExc, frame |-> [f EXCEPT !.order = "RGB"]]

\* image_data.split(',')[1]
AfterComma(s) ==
    LET parts == Split(s, ",") IN
    IF Len(parts) < 2 THEN [exc |-> "IndexError", text |-> <<>>]
    ELSE [exc |-> NoExc, text |-> parts[2]]

\* lines 29-41 up to the detector call: the exception the first failing
\* statement raises, or the frame handed to the detector
DecodeStage(req) ==
    IF req.kind = "bad_json" THEN [exc |-> "BadRequest", frame |-> NoFrame]
    ELSE IF req.kind = "no_image_key" THEN [exc |-> "KeyError", frame |-> NoFrame]
    ELSE IF req.kind = "image_not_str" THEN [exc |-> "AttributeError", frame |-> NoFrame]
    ELSE LET a == AfterComma(req.image) IN
         IF a.exc # NoExc THEN [exc |-> a.exc, frame |-> NoFrame]
         ELSE LET b == B64Decode(a.text) IN
              IF b.exc # NoExc THEN [exc |-> b.exc, frame |-> NoFrame]
              ELSE LET d == ImDecode(b.bytes) IN
                   IF d.exc # NoExc THEN [exc |-> d.exc, frame |-> NoFrame]
                   ELSE CvtColor(d.frame)

\* str(e) of the exceptions the pipeline raises
ExceptionText(e) ==
    CASE e = "BadRequest" -> "400 Bad Request: Failed to decode JSON object"
      [] e = "KeyError" -> "'image'"
      [] e = "AttributeError" -> "'int' object has no attribute 'split'"
      [] e = "IndexError" -> "list index out of range"
      [] e = "binascii.Error" -> "Incorrect padding"
      [] e = "cv2.error:imdecode" -> "(-215:Assertion failed) !buf.empty() in function 'imdecode_'"
      [] e = "cv2.error:cvtColor" -> "(-215:Assertion failed) !_src.empty() in function 'cvtColor'"
      [] e = "TypeError" -> "'NoneType' object is not iterable"
      [] e = "DetectorError" -> "detector graph error"
      [] OTHER -> ""

\* except ValueError as e: of the pipeline's exceptions only binascii.Error
\* derives from ValueError
Catches_valueErrorOnly(e) == e = "binascii.Error"

\* except Exception as e: every exception of the pipeline derives from Exception
Catches(e) == TRUE

-----------------------------------------------------------------------------
(* The detector, hands = mp_hands.Hands(...), and hands.process *)

\* hands visible in a decoded picture: carried by its first data byte
HandsIn(f) == IF Len(f.data) = 0 THEN 0 ELSE f.data[1] % (MaxNumHands + 1)

\* one detected hand: NumLandmarks landmark objects
Hand(k) ==
    [i \in 1..NumLandmarks |->
        [x |-> i, y |-> k, z |-> 0, visibility |-> 0, presence |-> 0]]

HandList(n) == [k \in 1..n |-> Hand(k)]

\* multi_hand_landmarks for n hands: None (or an empty list) when there is none
LandmarkResults(n) ==
    IF n = 0 THEN {NoResults, [present |-> TRUE, hands |-> <<>>]}
    ELSE {[present |-> TRUE, hands |-> HandList(n)]}

\* how many hands a call may report. With static_image_mode the picture alone
\* decides. Without it the detector treats the calls as one video stream: it
\* detects until it follows max_num_hands hands, and from then on only follows
\* those, without another detection, until it loses track of any of them. A
\* call that overlaps another thread's call races on that state.
HandCounts(f, trk, race) ==
    IF race THEN 0..MaxNumHands
    ELSE IF StaticImageMode \/ trk < MaxNumHands THEN {Min(HandsIn(f), MaxNumHands)}
    ELSE 0..Min(HandsIn(f), MaxNumHands)

DetectorOutcomes(f, trk, race) ==
    {[exc |-> NoExc, mhl |-> m] :
        m \in UNION {LandmarkResults(n) : n \in HandCounts(f, trk, race)}}
    \cup {[exc |-> "DetectorError", mhl |-> NoResults]}

-----------------------------------------------------------------------------
(* Result shaping, lines 46-63, and the except clause, lines 65-69 *)

\* if results.multi_hand_landmarks:
Truthy(m) == m.present /\ Len(m.hands) > 0

\* lines 47-57 with landmarks = [] set once, before the loop over the hands:
\* every entry is the one list that holds the records of all the hands
LandmarksData_shared(m) ==
    IF Truthy(m)
    THEN LET all == [j \in 1..(Len(m.hands) * NumLandmarks) |->
                        LET k == ((j - 1) \div NumLandmarks) + 1
                            i == ((j - 1) % NumLandmarks) + 1
                        IN [x |-> m.hands[k][i].x, y |-> m.hands[k][i].y,
                            z |-> m.hands[k][i].z]]
         IN [k \in 1..Len(m.hands) |-> all]
    ELSE <<>>

\* lines 47-57: landmarks_data
LandmarksData(m) ==
    IF Truthy(m)
    THEN [k \in 1..Len(m.hands) |->
            [i \in 1..Len(m.hands[k]) |->
                [x |-> m.hands[k][i].x, y |-> m.hands[k][i].y, z |-> m.hands[k][i].z]]]
    ELSE <<>>

\* lines 59-63
SuccessResponse(landmarks_data) ==
    [status |-> 200, success |-> TRUE, landmarks |-> landmarks_data,
     hand_count |-> Len(landmarks_data)]

\* lines 46-63 with the multi_hand_landmarks check left out: the loop runs
\* over None
ShapeStage_unchecked(m) ==
    IF ~m.present THEN [exc |-> "TypeError", response |-> <<>>]
    ELSE [exc |-> NoExc, response |-> SuccessResponse(LandmarksData(m))]

\* lines 46-63: no statement of the shaping raises
ShapeStage(m) == [exc |-> NoExc, response |-> SuccessResponse(LandmarksData(m))]

\* lines 66-69
FailureResponse(e) ==
    [status |-> 200, success |-> FALSE, error |-> ExceptionText(e)]

-----------------------------------------------------------------------------
(* Handler threads of the web server *)

WebInit ==
    /\ pc = [h \in Handlers |-> "idle"]
    /\ request = [h \in Handlers |-> NoRequest]
    /\ frame = [h \in Handlers |-> NoFrame]
    /\ results = [h \in Handlers |-> NoResults]
    /\ raised = [h \in Handlers |-> NoExc]
    /\ responses = [h \in Handlers |-> <<>>]
    /\ escaped = [h \in Handlers |-> FALSE]
    /\ raced = [h \in Handlers |-> FALSE]
    /\ doneBefore = [h \in Handlers |-> {}]
    /\ tracked = 0

\* a POST /process_frame arrives and the server starts a thread for it;
\* threads are numbered in the order the requests arrive
Receive(h, req) ==
    /\ pc[h] = "idle"
    /\ \A o \in 1..(h - 1) : pc[o] # "idle"
    /\ pc' = [pc EXCEPT ![h] = "received"]
    /\ request' = [request EXCEPT ![h] = req]
    /\ doneBefore' = [doneBefore EXCEPT ![h] = {o \in Handlers : pc[o] = "done"}]
    /\ UNCHANGED <<frame, results, raised, responses, escaped, raced, tracked>>
    /\ UNCHANGED liveVars

\* lines 29-41
Decode(h) ==
    /\ pc[h] = "received"
    /\ LET d == DecodeStage(request[h]) IN
         /\ raised' = [raised EXCEPT ![h] = d.exc]
         /\ frame' = [frame EXCEPT ![h] = d.frame]
         /\ pc' = [pc EXCEPT ![h] = IF d.exc = NoExc THEN "ready" ELSE "respond"]
    /\ UNCHANGED <<request, results, responses, escaped, raced, doneBefore, tracked>>
    /\ UNCHANGED liveVars

\* line 44 under a lock around the detector: no other thread is inside
CanCallDetector_locked(h) ==
    /\ pc[h] = "ready"
    /\ \A o \in Handlers \ {h} : pc[o] # "in_detector"

\* line 44: nothing but the thread's own position guards the call
CanCallDetector(h) == pc[h] = "ready"

\* line 44, the call is entered
EnterDetector(h) ==
    /\ CanCallDetector(h)
    /\ pc' = [pc EXCEPT ![h] = "in_detector"]
    /\ raced' = [o \in Handlers |->
                    IF \E q \in Handlers \ {h} : pc[q] = "in_detector"
                    THEN (o = h \/ pc[o] = "in_detector" \/ raced[o])
                    ELSE raced[o]]
    /\ UNCHANGED <<request, frame, results, raised, responses, escaped, doneBefore,
                   tracked>>
    /\ UNCHANGED liveVars

\* line 44, the call returns or raises
ExitDetector(h) ==
    /\ pc[h] = "in_detector"
    /\ \E o \in DetectorOutcomes(frame[h], tracked, raced[h]) :
         /\ raised' = [raised EXCEPT ![h] = o.exc]
         /\ results' = [results EXCEPT ![h] = o.mhl]
         /\ tracked' = IF o.exc # NoExc \/ StaticImageMode THEN tracked
                       ELSE Len(o.mhl.hands)
    /\ pc' = [pc EXCEPT ![h] = "respond"]
    /\ UNCHANGED <<request, frame, responses, escaped, raced, doneBefore>>
    /\ UNCHANGED liveVars

\* lines 46-63 when nothing was raised, lines 65-69 when something was
Respond(h) ==
    /\ pc[h] = "respond"
    /\ LET shaped == IF raised[h] = NoExc THEN ShapeStage(results[h])
                     ELSE [exc |-> raised[h], response |-> <<>>]
       IN /\ raised' = [raised EXCEPT ![h] = shaped.exc]
          /\ IF shaped.exc = NoExc
             THEN /\ responses' = [responses EXCEPT ![h] = Append(@, shaped.response)]
                  /\ UNCHANGED escaped
             ELSE IF Catches(shaped.exc)
             THEN /\ responses' = [responses EXCEPT
                                      ![h] = Append(@, FailureResponse(shaped.exc))]
                  /\ UNCHANGED escaped
             ELSE /\ escaped' = [escaped EXCEPT ![h] = TRUE]
                  /\ UNCHANGED responses
    /\ pc' = [pc EXCEPT ![h] = "done"]
    /\ UNCHANGED <<request, frame, results, raced, doneBefore, tracked>>
    /\ UNCHANGED liveVars

-----------------------------------------------------------------------------
(* The live-view script, src/hand_tracking.py *)

SkippedIteration == <<"read", "print">>

FullIteration(n) ==
    <<"read", "cvtColor", "process">> \o (IF n > 0 THEN <<"draw">> ELSE <<>>)
        \o <<"imshow", "waitKey">>

\* keys the user may press while the window has the focus
Keys == {ESC, 113, 283}

\* the script is not running
LiveOff ==
    /\ lpc = "off"
    /\ capOpen = FALSE
    /\ camAlive = FALSE
    /\ window = FALSE
    /\ keyPending = NoKey
    /\ liveHands = 0
    /\ ops = <<>>
    /\ prevOps = <<>>
    /\ released = FALSE
    /\ destroyed = FALSE

\* lines 1-16: cap = cv2.VideoCapture(0) opens the camera or fails to
LiveInit ==
    /\ lpc = "loop"
    /\ capOpen \in BOOLEAN
    /\ camAlive = capOpen
    /\ window = FALSE
    /\ keyPending = NoKey
    /\ liveHands = 0
    /\ ops = <<>>
    /\ prevOps = <<>>
    /\ released = FALSE
    /\ destroyed = FALSE

\* line 18: while cap.isOpened()
LoopTest ==
    /\ lpc = "loop"
    /\ IF capOpen
       THEN /\ lpc' = "read"
            /\ prevOps' = ops
            /\ ops' = <<>>
       ELSE /\ lpc' = "release"
            /\ UNCHANGED <<ops, prevOps>>
    /\ UNCHANGED <<capOpen, camAlive, window, keyPending, liveHands, released,
                   destroyed>>
    /\ UNCHANGED webVars

\* lines 19-22 without the continue: the empty frame goes on to cvtColor
ReadFrame_fallthrough ==
    /\ lpc = "read"
    /\ \E success \in (IF camAlive THEN BOOLEAN ELSE {FALSE}) :
         /\ ops' = IF success THEN <<"read">> ELSE <<"read", "print">>
         /\ lpc' = "convert"
    /\ UNCHANGED <<capOpen, camAlive, window, keyPending, liveHands, prevOps,
                   released, destroyed>>
    /\ UNCHANGED webVars

\* lines 19-22: success, frame = cap.read(); an empty read prints and continues
ReadFrame ==
    /\ lpc = "read"
    /\ \E success \in (IF camAlive THEN BOOLEAN ELSE {FALSE}) :
         IF success
         THEN /\ ops' = <<"read">>
              /\ lpc' = "convert"
         ELSE /\ ops' = <<"read", "print">>
              /\ lpc' = "loop"
    /\ UNCHANGED <<capOpen, camAlive, window, keyPending, liveHands, prevOps,
                   released, destroyed>>
    /\ UNCHANGED webVars

\* line 25
ConvertFrame ==
    /\ lpc = "convert"
    /\ ops' = Append(ops, "cvtColor")
    /\ lpc' = "process"
    /\ UNCHANGED <<capOpen, camAlive, window, keyPending, liveHands, prevOps,
                   released, destroyed>>
    /\ UNCHANGED webVars

\* lines 28-31
ProcessFrame ==
    /\ lpc = "process"
    /\ \E n \in 0..MaxNumHands :
         /\ liveHands' = n
         /\ lpc' = IF n > 0 THEN "draw" ELSE "show"
    /\ ops' = Append(ops, "process")
    /\ UNCHANGED <<capOpen, camAlive, window, keyPending, prevOps, released,
                   destroyed>>
    /\ UNCHANGED webVars

\* lines 32-34
DrawLandmarks ==
    /\ lpc = "draw"
    /\ ops' = Append(ops, "draw")
    /\ lpc' = "show"
    /\ UNCHANGED <<capOpen, camAlive, window, keyPending, liveHands, prevOps,
                   released, destroyed>>
    /\ UNCHANGED webVars

\* line 37
ShowFrame ==
    /\ lpc = "show"
    /\ window' = TRUE
    /\ ops' = Append(ops, "imshow")
    /\ lpc' = "waitkey"
    /\ UNCHANGED <<capOpen, camAlive, keyPending, liveHands, prevOps, released,
                   destroyed>>
    /\ UNCHANGED webVars

\* lines 40-41: cv2.waitKey(1) takes the pending key, -1 if there is none
WaitKey ==
    /\ lpc = "waitkey"
    /\ keyPending' = NoKey
    /\ ops' = Append(ops, "waitKey")
    /\ lpc' = IF keyPending % 256 = ESC THEN "release" ELSE "loop"
    /\ UNCHANGED <<capOpen, camAlive, window, liveHands, prevOps, released,
                   destroyed>>
    /\ UNCHANGED webVars

\* line 43
Release ==
    /\ lpc = "release"
    /\ capOpen' = FALSE
    /\ released' = TRUE
    /\ lpc' = "destroy"
    /\ UNCHANGED <<camAlive, window, keyPending, liveHands, ops, prevOps, destroyed>>
    /\ UNCHANGED webVars

\* line 44
DestroyWindows ==
    /\ lpc = "destroy"
    /\ window' = FALSE
    /\ destroyed' = TRUE
    /\ lpc' = "done"
    /\ UNCHANGED <<capOpen, camAlive, keyPending, liveHands, ops, prevOps, released>>
    /\ UNCHANGED webVars

\* the user presses a key in the window
PressKey(k) ==
    /\ window
    /\ keyPending = NoKey
    /\ keyPending' = k
    /\ UNCHANGED <<lpc, capOpen, camAlive, window, liveHands, ops, prevOps, released,
                   destroyed>>
    /\ UNCHANGED webVars

\* the capture source stops yielding frames (unplugged, end of stream)
CameraStops ==
    /\ lpc \notin {"off", "done"}
    /\ camAlive
    /\ camAlive' = FALSE
    /\ UNCHANGED <<lpc, capOpen, window, keyPending, liveHands, ops, prevOps, released,
                   destroyed>>
    /\ UNCHANGED webVars

\* the statements of the script, one thread
LiveStep ==
    \/ LoopTest
    \/ ReadFrame
    \/ ConvertFrame
    \/ ProcessFrame
    \/ DrawLandmarks
    \/ ShowFrame
    \/ WaitKey
    \/ Release
    \/ DestroyWindows

-----------------------------------------------------------------------------
(* Requests *)

ImageRequest(s) == [kind |-> "image_str", image |-> s]

OtherRequests ==
    {[kind |-> k, image |-> <<>>] : k \in {"bad_json", "no_image_key", "image_not_str"}}

\* characters of the generated payloads: three of the alphabet ("/9j/" is how
\* every encoded JPEG starts), the pad, one outside the alphabet, the comma
BodyAlphabet == {"/", "9", "j", "=", "!", ","}

\* the payloads: with and without the data-URL prefix
Prefixes == {<<>>, DataUrlPrefix}

\* encoded pictures with no, one and two hands, and four bytes that are no picture
ServerRequests ==
    {ImageRequest(DataUrlPrefix \o <<"/", "9", "j", "/">> \o t) :
        t \in {<<"A", "A", "A", "A">>, <<"A", "Q", "A", "A">>, <<"A", "g", "A", "A">>}}
      \cup {ImageRequest(DataUrlPrefix \o <<"A", "A", "A", "A">>)}

-----------------------------------------------------------------------------
(* Specifications *)

\* the threaded web server: one handler thread per request
Init == WebInit /\ LiveOff

Next ==
    \E h \in Handlers :
        \/ \E req \in ServerRequests : Receive(h, req)
        \/ Decode(h)
        \/ EnterDetector(h)
        \/ ExitDetector(h)
        \/ Respond(h)

Spec == Init /\ [][Next]_vars

\* one request, drawn from the generated payloads: the initial state holds the
\* request that is on its way to the server
InitDecode ==
    /\ \/ \E p \in Prefixes, n \in 0..MaxLen :
             \E b \in [1..n -> BodyAlphabet] :
                request = [h \in Handlers |->
                             IF h = 1 THEN ImageRequest(p \o b) ELSE NoRequest]
       \/ \E req \in OtherRequests :
             request = [h \in Handlers |-> IF h = 1 THEN req ELSE NoRequest]
    /\ pc = [h \in Handlers |-> "idle"]
    /\ frame = [h \in Handlers |-> NoFrame]
    /\ results = [h \in Handlers |-> NoResults]
    /\ raised = [h \in Handlers |-> NoExc]
    /\ responses = [h \in Handlers |-> <<>>]
    /\ escaped = [h \in Handlers |-> FALSE]
    /\ raced = [h \in Handlers |-> FALSE]
    /\ doneBefore = [h \in Handlers |-> {}]
    /\ tracked = 0
    /\ LiveOff

NextDecode ==
    \/ Receive(1, request[1])
    \/ Decode(1)
    \/ EnterDetector(1)
    \/ ExitDetector(1)
    \/ Respond(1)

SpecDecode == InitDecode /\ [][NextDecode]_vars

\* the live-view script with its user and its camera
InitLive == WebInit /\ LiveInit

NextLive ==
    \/ LiveStep
    \/ \E k \in Keys : PressKey(k)
    \/ CameraStops

SpecLive == InitLive /\ [][NextLive]_vars

\* the interpreter keeps running the script's next statement
SpecLiveFair == InitLive /\ [][NextLive]_vars /\ WF_vars(LiveStep)

-----------------------------------------------------------------------------
(* Properties of the web path *)

Done(h) == pc[h] = "done"

\* hands.process returned to handler h without raising
DetectorReturned(h) ==
    /\ pc[h] \in {"respond", "done"}
    /\ ~frame[h].isNone
    /\ raised[h] # "DetectorError"

\* a data-URL prefix ends at the first comma of the text
HasPrefix(s) == \E i \in 1..Len(s) : s[i] = ","

\* the text behind the prefix, the whole text when there is none
PayloadPart(s) ==
    IF HasPrefix(s)
    THEN LET c == CHOOSE i \in 1..Len(s) :
                     s[i] = "," /\ \A j \in 1..(i - 1) : s[j] # ","
         IN SubSeq(s, c + 1, Len(s))
    ELSE s

\* base64 as RFC 4648 writes it: alphabet characters in groups of four, the
\* last group padded with at most two "="
StrictBase64(b) ==
    /\ Len(b) % 4 = 0
    /\ \E np \in 0..2 :
         /\ np <= Len(b)
         /\ \A i \in 1..(Len(b) - np) : InAlphabet(b[i])
         /\ \A i \in (Len(b) - np + 1)..Len(b) : b[i] = B64Pad

\* a syntactically valid base64 encoding of a decodable image, with or without
\* the data-URL prefix
ValidImagePayload(s) ==
    LET b == PayloadPart(s) IN
    /\ StrictBase64(b)
    /\ B64Decode(b).exc = NoExc
    /\ IsImage(B64Decode(b).bytes)

\* C1: every success response carries hand_count = len(landmarks) = the number
\* of hands the detector reported, and every hand entry has exactly 21 records
\* with the fields x, y and z
SuccessResponseShape ==
    \A h \in Handlers :
        (Done(h) /\ Len(responses[h]) = 1 /\ responses[h][1].success) =>
            LET r == responses[h][1] IN
            /\ r.hand_count = Len(r.landmarks)
            /\ r.hand_count = Len(results[h].hands)
            /\ \A k \in 1..Len(r.landmarks) :
                 /\ Len(r.landmarks[k]) = 21
                 /\ \A i \in 1..Len(r.landmarks[k]) :
                      DOMAIN r.landmarks[k][i] = {"x", "y", "z"}

\* a success response for a detector result of two hands
TwoHandsShaped ==
    \E h \in Handlers :
        /\ Done(h)
        /\ Len(responses[h]) = 1
        /\ responses[h][1].success
        /\ Len(results[h].hands) = MaxNumHands
        /\ responses[h][1].hand_count = 2

\* C2: a request whose image is a malformed payload gets HTTP 200 with
\* success=false and a non-empty error, never success=true
MalformedPayloadFails ==
    \A h \in Handlers :
        (Done(h) /\ request[h].kind = "image_str"
                 /\ ~ValidImagePayload(request[h].image)) =>
            /\ Len(responses[h]) = 1
            /\ responses[h][1].status = 200
            /\ ~responses[h][1].success
            /\ responses[h][1].error # ""

\* C3: a valid base64 encoding of a decodable image gets success=true whether
\* or not it carries the data-URL prefix (the detector not raising)
ValidPayloadSucceeds ==
    \A h \in Handlers :
        (Done(h) /\ request[h].kind = "image_str"
                 /\ ValidImagePayload(request[h].image)
                 /\ raised[h] # "DetectorError") =>
            /\ Len(responses[h]) = 1
            /\ responses[h][1].success

\* C4: when the detector reports no hand (multi_hand_landmarks None or empty)
\* the response is success=true, landmarks == [], hand_count == 0
NoHandGivesEmptyLandmarks ==
    \A h \in Handlers :
        (Done(h) /\ DetectorReturned(h)
                 /\ (~results[h].present \/ results[h].hands = <<>>)) =>
            responses[h] = <<[status |-> 200, success |-> TRUE,
                              landmarks |-> <<>>, hand_count |-> 0]>>

\* the detector returned None and the handler answered
NoHandAnswered ==
    \E h \in Handlers :
        /\ Done(h)
        /\ DetectorReturned(h)
        /\ ~results[h].present
        /\ Len(responses[h]) = 1

\* C7: nothing keeps a handler that has its frame from entering hands.process,
\* whatever the other handlers are doing
DetectorCallUnguarded ==
    \A h \in Handlers : pc[h] = "ready" => ENABLED EnterDetector(h)

\* two handlers are inside hands.process at the same time
TwoHandlersInDetector ==
    \E h1, h2 \in Handlers :
        /\ h1 # h2
        /\ pc[h1] = "in_detector"
        /\ pc[h2] = "in_detector"

\* C8: every invocation ends with exactly one response and no exception leaves
\* the handler; a raised exception gives the failure shape with its text, and
\* the success shape is returned only when nothing was raised
ExactlyOneResponse ==
    \A h \in Handlers :
        /\ ~escaped[h]
        /\ Len(responses[h]) = (IF Done(h) THEN 1 ELSE 0)
        /\ Done(h) =>
              IF raised[h] # NoExc
              THEN responses[h][1] = [status |-> 200, success |-> FALSE,
                                      error |-> ExceptionText(raised[h])]
              ELSE responses[h][1].success

\* an exception raised by the colour conversion was answered
ConversionErrorAnswered ==
    \E h \in Handlers :
        /\ Done(h)
        /\ raised[h] = "cv2.error:cvtColor"
        /\ Len(responses[h]) = 1
        /\ ~responses[h][1].success

-----------------------------------------------------------------------------
(* Properties of the live path *)

CleanExit == lpc = "done" /\ released /\ destroyed

\* C5: once ESC is pressed the script eventually leaves the loop, releases the
\* camera and closes the window
EscLeadsToCleanExit == (keyPending % 256 = ESC) ~> CleanExit

\* C6: once the capture source stops yielding frames the loop eventually ends
\* and the camera is released and the window closed
CameraFailureLeadsToExit == (capOpen /\ ~camAlive) ~> CleanExit

\* C9: an iteration with an empty read only reads and prints, leaves the
\* script at the loop test with the capture still open, so that the camera is
\* read again; the iteration after it, when its read succeeds, converts,
\* detects, draws the hands found, shows the frame and polls the key
EmptyReadSkipped ==
    /\ (\E i \in 1..Len(ops) : ops[i] = "print") =>
          /\ ops = SkippedIteration
          /\ lpc = "loop"
          /\ capOpen
          /\ ~released
    /\ (lpc = "loop" /\ ops # <<>>) =>
          (ops = SkippedIteration \/ ops = FullIteration(liveHands))
    /\ (prevOps = SkippedIteration /\ lpc \in {"loop", "release"}
            /\ ops # <<>> /\ ops # SkippedIteration) =>
          ops = FullIteration(liveHands)

\* an empty read was skipped and the next iteration showed its frame with hands
FrameShownAfterEmptyRead ==
    /\ lpc = "loop"
    /\ prevOps = SkippedIteration
    /\ liveHands > 0
    /\ ops = FullIteration(liveHands)

=============================================================================
